---- MODULE Spec2Model ----
(***************************************************************************)
(* Model of opensipscli/modules/database.py: the database provisioning     *)
(* and migration commands (create, add, drop, migrate) of opensips-cli.    *)
(*                                                                         *)
(* The commands run one at a time in one process.  Each command is a       *)
(* sequence of steps; a step is one action of the model.  The database     *)
(* driver (opensipscli.db.osdb) is an external collaborator: each of its   *)
(* primitives is a step input drawn from the outcomes the code handles.    *)
(***************************************************************************)
EXTENDS Integers, Sequences, FiniteSets, TLC

(***************************************************************************)
(* Bounds of the model.                                                    *)
(***************************************************************************)
\* number of commands run in one process
MaxOps == 2

(***************************************************************************)
(* Module constants of database.py.                                        *)
(***************************************************************************)
STANDARD_DB_MODULES ==
    << "acc", "alias_db", "auth_db", "avpops", "clusterer", "dialog",
       "dialplan", "dispatcher", "domain", "drouting", "group",
       "load_balancer", "msilo", "permissions", "rtpproxy", "rtpengine",
       "speeddial", "tls_mgm", "usrloc" >>

EXTRA_DB_MODULES ==
    << "b2b", "b2b_sca", "call_center", "carrierroute", "closeddial",
       "domainpolicy", "emergency", "fraud_detection",
       "freeswitch_scripting", "imc", "load_balancer", "presence",
       "registrant", "rls", "smpp", "tracer", "userblacklist" >>

MIGRATE_TABLES_24_TO_30 ==
    << "registrant", "tls_mgm", "acc", "address", "cachedb",
       "carrierfailureroute", "carrierroute", "cc_agents", "cc_calls",
       "cc_cdrs", "cc_flows", "closeddial", "clusterer", "cpl", "dbaliases",
       "dialplan", "dispatcher", "domain", "domainpolicy", "dr_carriers",
       "dr_gateways", "dr_groups", "dr_partitions", "dr_rules",
       "emergency_report", "emergency_routing",
       "emergency_service_provider", "fraud_detection", "freeswitch",
       "globalblacklist", "grp", "imc_members", "imc_rooms",
       "load_balancer", "location", "missed_calls", "presentity", "pua",
       "re_grp", "rls_presentity", "rls_watchers", "route_tree",
       "rtpengine", "rtpproxy_sockets", "silo", "sip_trace", "smpp",
       "speed_dial", "subscriber", "uri", "userblacklist",
       "usr_preferences", "xcap" >>

\* the '-create.sql' suffix of a module's creation asset
CREATE_SUFFIX == "-create.sql"

\* the well-known system install path of the schema files
SYSTEM_PATH == << "usr", "share", "opensips" >>

(***************************************************************************)
(* Sequence helpers.                                                       *)
(***************************************************************************)
Range(s) == { s[i] : i \in 1..Len(s) }

Last(s) == s[Len(s)]

Front(s) == SubSeq(s, 1, Len(s) - 1)

(***************************************************************************)
(* Strings.  A configuration string is a sequence of one-character         *)
(* strings, so that strip(), lower() and split(" ") are computed as        *)
(* Python computes them.  Join turns such a sequence into a string.        *)
(***************************************************************************)
RECURSIVE Join(_)
Join(cs) == IF cs = << >> THEN "" ELSE Head(cs) \o Join(Tail(cs))

\* str.isspace() of one character
IsSpace(c) == c \in { " ", "\t", "\n", "\r" }

\* str.lower() of one character (the letters the inputs use)
LowerChar(c) ==
    CASE c = "A" -> "a"
      [] c = "L" -> "l"
      [] c = "C" -> "c"
      [] c = "B" -> "b"
      [] OTHER   -> c

\* str.lower()
Lower(cs) == [ i \in 1..Len(cs) |-> LowerChar(cs[i]) ]

RECURSIVE LStrip(_)
LStrip(cs) ==
    IF cs # << >> /\ IsSpace(Head(cs)) THEN LStrip(Tail(cs)) ELSE cs

RECURSIVE RStrip(_)
RStrip(cs) ==
    IF cs # << >> /\ IsSpace(Last(cs)) THEN RStrip(Front(cs)) ELSE cs

\* str.strip()
Strip(cs) == RStrip(LStrip(cs))

\* str.split(" "): split at every single space character, keeping the
\* empty pieces (a sequence of strings)
RECURSIVE SplitSpace(_, _)
SplitSpace(cs, cur) ==
    IF cs = << >> THEN << Join(cur) >>
    ELSE IF Head(cs) = " "
         THEN << Join(cur) >> \o SplitSpace(Tail(cs), << >>)
         ELSE SplitSpace(Tail(cs), Append(cur, Head(cs)))

(***************************************************************************)
(* File names.  A file name is a sequence of pieces; the piece             *)
(* CREATE_SUFFIX is the text '-create.sql', the other pieces hold no part  *)
(* of it.                                                                  *)
(***************************************************************************)
\* the name as one string
FileName(ps) == Join(ps)

\* f.endswith('-create.sql')
EndsWithCreate(ps) == ps # << >> /\ Last(ps) = CREATE_SUFFIX

\* f.replace('-create.sql', ''): every occurrence is removed
RECURSIVE ReplaceCreate(_)
ReplaceCreate(ps) ==
    IF ps = << >> THEN ""
    ELSE IF Head(ps) = CREATE_SUFFIX THEN ReplaceCreate(Tail(ps))
         ELSE Head(ps) \o ReplaceCreate(Tail(ps))

\* "{}-create.sql".format(table)
CreateFile(table) == table \o CREATE_SUFFIX

\* os.path.isfile(os.path.join(schema_path, name)) in a directory listing
IsFile(dir, name) ==
    \E i \in 1..Len(dir) : FileName(dir[i].n) = name /\ dir[i].k = "file"

(***************************************************************************)
(* Names and inputs.                                                       *)
(***************************************************************************)
\* database names the commands are run on
DbNames == { "opensips", "opensips_new" }

\* backend identifiers of the configured URL: the dialect and an optional
\* driver variant after '+'; << >> when osdb.get_db_engine() finds none
Drivers == { << "mysql" >>, << "mysql", "+", "pymysql" >>, << "postgres" >> }

NoEngine == << >>

\* self.db_path = None
NoPath == << >>

\* the operator-supplied schema root used by the inputs
CUSTOM_ROOT == << "opt", "opensips-db" >>

\* outcomes of the osdb() constructor
ConnectErrors == { "argument", "connect", "nosuchmodule" }

(***************************************************************************)
(* State.                                                                  *)
(***************************************************************************)
VARIABLES
    \* environment, fixed during a run
    engine,      \* backend identifier of the configured URLs (or NoEngine)
    adminCfg,    \* cfg.exists('database_admin_url')
    osUser,      \* getuser()
    sysStd,      \* <SYSTEM_PATH>/<backend>/standard-create.sql is a file
    schemaCfg,   \* cfg.read_param("database_schema_path"): a path or NoPath
    customKind,  \* what CUSTOM_ROOT is on disk
    fs,          \* listing of <schema root>/<backend>, in os.listdir order
    cfgModules,  \* cfg database_modules: [exists, value]
    \* the database server
    dbs,         \* the databases that exist
    granted,     \* the databases the application user can connect to
    applied,     \* per database, the modules whose creation SQL was applied
    \* the process
    db_path,     \* self.db_path
    nOps,        \* commands started so far
    \* the running command
    op,          \* [name, db, module, old, nparams]
    pc,          \* position in the command
    ret,         \* the status the command returned
    raised,      \* the exception that left the command, or "none"
    open,        \* the osdb handles opened by the command and not destroyed
    loc,         \* local variables
    log,         \* the driver calls and messages of the command, in order
    fault,       \* a driver primitive reported a failure during the command
    created      \* databases an earlier create of this run returned 0 for

env == << engine, adminCfg, osUser, sysStd, schemaCfg, customKind, fs,
          cfgModules >>

world == << dbs, granted, applied >>

vars == << engine, adminCfg, osUser, sysStd, schemaCfg, customKind, fs,
           cfgModules, dbs, granted, applied, db_path, nOps, op, pc, ret,
           raised, open, loc, log, fault, created >>

\* db.dialect: the backend of the URL without its driver variant
Dialect == IF engine = NoEngine THEN "" ELSE Head(engine)

\* osdb.get_url_driver(admin_url)
UrlDriver == Join(engine)

(***************************************************************************)
(* Credential Resolver.                                                    *)
(***************************************************************************)
\* get_db_url: None (FALSE) when there is no engine
get_db_url == engine # NoEngine

\* get_admin_db_url: None (FALSE) when there is no engine, or for postgres
\* without a configured admin URL when not run as the postgres user
get_admin_db_url ==
    /\ engine # NoEngine
    /\ \/ adminCfg
       \/ Dialect # "postgres"
       \/ osUser = "postgres"

(***************************************************************************)
(* Schema Locator: get_schema_path.                                        *)
(***************************************************************************)
\* backend[0:backend.index('+')] when '+' is in backend
RECURSIVE StripVariant(_)
StripVariant(b) ==
    IF b = << >> \/ Head(b) = "+" THEN << >>
    ELSE << Head(b) >> \o StripVariant(Tail(b))

\* os.path.exists / os.path.isdir on the paths the inputs reach
PathExists(p) ==
    \/ p = CUSTOM_ROOT /\ customKind # "missing"
    \/ p = Append(CUSTOM_ROOT, Dialect) /\ customKind = "ok"

PathIsDir(p) ==
    \/ p = CUSTOM_ROOT /\ customKind \in { "ok", "nobackend" }
    \/ p = Append(CUSTOM_ROOT, Dialect) /\ customKind = "ok"

\* the operator-supplied path, normalised: one trailing separator stripped
\* (a trailing separator is an empty last component), then one level up
\* when the last component is the backend
NormalizePath(p, backend) ==
    LET q == IF p # << >> /\ Last(p) = "" THEN Front(p) ELSE p
    IN  IF q # << >> /\ Last(q) = backend THEN Front(q) ELSE q

\* get_schema_path(backend), from the cached root path: the result
\* [ok, path] and the new self.db_path
get_schema_path(backend0, path) ==
    LET backend == Join(StripVariant(backend0))
        custom  == NormalizePath(schemaCfg, backend)
    IN  IF path # NoPath
        THEN [ ok |-> TRUE, path |-> Append(path, backend),
               db_path |-> path ]
        ELSE IF sysStd /\ backend = Dialect
        THEN [ ok |-> TRUE, path |-> Append(SYSTEM_PATH, backend),
               db_path |-> SYSTEM_PATH ]
        ELSE IF schemaCfg = NoPath
        THEN [ ok |-> FALSE, path |-> NoPath, db_path |-> path ]
        ELSE IF ~ PathExists(custom) \/ ~ PathIsDir(custom)
        THEN [ ok |-> FALSE, path |-> NoPath, db_path |-> path ]
        ELSE IF ~ PathIsDir(Append(custom, backend))
        THEN [ ok |-> FALSE, path |-> NoPath, db_path |-> path ]
        ELSE [ ok |-> TRUE, path |-> Append(custom, backend),
               db_path |-> custom ]

\* the listing of a resolved schema path: fs lists <root>/<dialect>
ListDir(path) == IF path # NoPath /\ Last(path) = Dialect THEN fs ELSE << >>

(***************************************************************************)
(* Table Set Resolver (create_tables, "check to see what tables we shall   *)
(* deploy").                                                               *)
(***************************************************************************)
\* the modules of the '*-create.sql' regular files of the schema path
ListModules(dir) ==
    LET hit(e) == e.k = "file" /\ EndsWithCreate(e.n)
        sel    == SelectSeq(dir, hit)
    IN  [ i \in 1..Len(sel) |-> ReplaceCreate(sel[i].n) ]

\* a resolver that lets the configuration win over the explicit list
ResolveTables_ConfigFirst(tables, dir) ==
    IF cfgModules.exists
    THEN LET tables_line == Lower(Strip(cfgModules.value))
         IN  IF Join(tables_line) = "all"
             THEN ListModules(dir)
             ELSE SplitSpace(tables_line, << >>)
    ELSE IF tables # << >> THEN tables
    ELSE STANDARD_DB_MODULES

ResolveTables(tables, dir) ==
    IF tables # << >> THEN tables
    ELSE IF cfgModules.exists
    THEN LET tables_line == Lower(Strip(cfgModules.value))
         IN  IF Join(tables_line) = "all"
             THEN ListModules(dir)
             ELSE SplitSpace(tables_line, << >>)
    ELSE STANDARD_DB_MODULES

\* the probe loop: table_files after probing tables[1..n]; table_files is
\* the dict's keys in insertion order
RECURSIVE ProbeTables(_, _, _, _)
ProbeTables(tables, n, table_files, dir) ==
    IF n = 0 THEN table_files
    ELSE LET before == ProbeTables(tables, n - 1, table_files, dir)
             table  == tables[n]
         IN  IF table = "standard" THEN before
             ELSE IF ~ IsFile(dir, CreateFile(table)) THEN before
             ELSE IF table \in Range(before) THEN before
             ELSE Append(before, table)

\* the probe loop's messages and file probes, in order
RECURSIVE ProbeLog(_, _, _)
ProbeLog(tables, n, dir) ==
    IF n = 0 THEN << >>
    ELSE LET table == tables[n]
         IN  ProbeLog(tables, n - 1, dir) \o
             ( IF table = "standard" THEN << >>
               ELSE IF ~ IsFile(dir, CreateFile(table))
               THEN << << "probe", table >>, << "warn", table >> >>
               ELSE << << "probe", table >> >> )

(***************************************************************************)
(* The database driver (opensipscli.db.osdb), an external collaborator.    *)
(***************************************************************************)
\* osdb(admin_url, db_name): the outcomes of the constructor
AdminConnect == { "ok", "denied" } \cup ConnectErrors

\* osdb(db_url, db_name) as the application user: access is denied unless
\* the user was granted access to the database
AppConnect(d) ==
    ( IF d \in granted THEN { "ok" } ELSE { "denied" } ) \cup ConnectErrors

\* db.create_module(table_file) on database d
CreateModule(d, m) ==
    IF m \in applied[d] THEN { "exists" } ELSE { "ok", "error" }

(***************************************************************************)
(* get_db: the result of osdb(), "handle", None ("none") or the exception  *)
(* re-raised for check_access ("raise").                                   *)
(***************************************************************************)
get_db(outcome, check_access) ==
    IF outcome = "ok" THEN "handle"
    ELSE IF outcome = "denied" /\ check_access THEN "raise"
    ELSE "none"

(***************************************************************************)
(* Command bookkeeping.                                                    *)
(***************************************************************************)
LocInit ==
    [ db |-> "", url |-> "url", admin |-> "handle", tables_arg |-> << >>,
      std |-> TRUE, schema |-> NoPath, tables |-> << >>,
      table_files |-> << >>, i |-> 0, sub_ret |-> 0, eu_db |-> "none",
      first |-> "", resolved |-> FALSE, backend |-> << >> ]

Idle == pc \in { "idle", "done" }

\* a command starts: its frame is fresh
Start(o, first_pc) ==
    /\ Idle
    /\ nOps < MaxOps
    /\ nOps' = nOps + 1
    /\ op' = o
    /\ pc' = first_pc
    /\ ret' = 0
    /\ raised' = "none"
    /\ open' = {}
    /\ loc' = LocInit
    /\ log' = << >>
    /\ fault' = FALSE
    /\ UNCHANGED << env, world, db_path, created >>

\* the command returns v
Return(v) == pc' = "done" /\ ret' = v /\ raised' = "none"

\* an exception leaves the command
Raise(e) == pc' = "done" /\ raised' = e /\ ret' = ret

Goto(l) == pc' = l /\ ret' = ret /\ raised' = raised

\* again: an earlier create of this run returned 0 for the database
Op(name, db, module, old, nparams) ==
    [ name |-> name, db |-> db, module |-> module, old |-> old,
      nparams |-> nparams, again |-> db \in created ]

\* where create_tables returns to
AfterTables ==
    CASE op.name = "create"  -> "create_finish"
      [] op.name = "add"     -> "add_finish"
      [] op.name = "migrate" -> "migrate_after_tables"

\* where create_db returns to
AfterDb ==
    CASE op.name = "create"  -> "create_after_db"
      [] op.name = "migrate" -> "migrate_after_db"

(***************************************************************************)
(* do_create.                                                              *)
(***************************************************************************)
\* create [db_name]: the name is params[0] or the configured database_name
StartCreate(d) == Start(Op("create", d, "", "", 1), "create_connect")

\* admin_url = get_admin_db_url(); admin_db = get_db(admin_url, db_name)
do_create_connect ==
    /\ pc = "create_connect"
    /\ IF ~ get_admin_db_url
       THEN /\ Return(-1)
            /\ UNCHANGED << open, log, fault >>
       ELSE \E o \in AdminConnect :
              IF get_db(o, FALSE) = "handle"
              THEN /\ Goto("create_db")
                   /\ open' = open \cup { "admin" }
                   /\ log' = Append(log, << "open", "admin" >>)
                   /\ UNCHANGED fault
              ELSE /\ Return(-1)
                   /\ fault' = TRUE
                   /\ UNCHANGED << open, log >>
    /\ UNCHANGED << env, world, db_path, nOps, op, loc, created >>

(***************************************************************************)
(* create_db(db_name, admin_url, db), called with the caller's handle.     *)
(* do_create and do_migrate both pass the handle they hold, so the branch  *)
(* that opens and destroys a handle of its own ("if not db") is not taken. *)
(***************************************************************************)
create_db ==
    /\ pc = "create_db"
    /\ pc' = AfterDb
    /\ UNCHANGED << ret, raised >>
    /\ IF op.db \in dbs
       THEN \* db.exists(db_name): already created
            /\ loc' = [ loc EXCEPT !.sub_ret = -2 ]
            /\ log' = log \o << << "exists", op.db >>,
                                << "warn_exists", op.db >> >>
            /\ UNCHANGED << dbs, applied, fault >>
       ELSE \E created_ok \in BOOLEAN :
              /\ log' = log \o << << "exists", op.db >>,
                                  << "create", op.db >> >>
              /\ IF created_ok
                 THEN /\ dbs' = dbs \cup { op.db }
                      /\ applied' = [ applied EXCEPT ![op.db] = {} ]
                      /\ loc' = [ loc EXCEPT !.sub_ret = 0 ]
                      /\ UNCHANGED fault
                 ELSE /\ loc' = [ loc EXCEPT !.sub_ret = -1 ]
                      /\ fault' = TRUE
                      /\ UNCHANGED << dbs, applied >>
    /\ UNCHANGED << env, granted, db_path, nOps, op, open, created >>

\* a create that takes "already exists" (-2) for a soft success
CreateDbFailed_HardOnly(r) == r = -1

\* if self.create_db(...) < 0
CreateDbFailed(r) == r < 0

\* if create_db(...) < 0: return -1; db_url = get_db_url(db_name)
do_create_after_db ==
    /\ pc = "create_after_db"
    /\ IF CreateDbFailed(loc.sub_ret) THEN Return(-1)
       ELSE IF ~ get_db_url THEN Return(-1)
       ELSE Goto("ensure_user")
    /\ UNCHANGED << env, world, db_path, nOps, op, open, loc, log, fault,
                    created >>

(***************************************************************************)
(* ensure_user(db_url, db_name, admin_db): the Privilege Bootstrapper.     *)
(***************************************************************************)
\* a bootstrapper that escalates whatever the first access check said
AfterFirstCheck_AlwaysEscalate(r) == "ensure_user_escalate"

\* the first access check: only osdbAccessDeniedError leads to the
\* administrative ensure_user; otherwise "access works" is logged
AfterFirstCheck(r) ==
    IF r = "raise" THEN "ensure_user_escalate" ELSE "ensure_user_finish"

\* try: db = get_db(db_url, db_name, check_access=True);
\* logger.info("access works, opensips user already exists")
ensure_user_check ==
    /\ pc = "ensure_user"
    /\ \E o \in AppConnect(op.db) :
         LET r == get_db(o, TRUE)
         IN  /\ loc' = [ loc EXCEPT !.first = o,
                                    !.eu_db = IF r = "handle" THEN "handle"
                                              ELSE "none" ]
             /\ log' = Append(log, << "access_check", o >>) \o
                       ( IF r = "raise" THEN << >>
                         ELSE << << "access_works", op.db >> >> )
             /\ fault' = ( fault \/ o \in ConnectErrors )
             /\ open' = IF r = "handle" THEN open \cup { "probe" } ELSE open
             /\ Goto(AfterFirstCheck(r))
    /\ UNCHANGED << env, world, db_path, nOps, op, created >>

\* a bootstrapper that retries the access check after a failed
\* administrative ensure_user too
ensure_user_escalate_RetryAfterFailure ==
    /\ pc = "ensure_user_escalate"
    /\ \E o \in { "granted", "noeffect", "failed" } :
         /\ log' = Append(log, << "ensure_user", o >>)
         /\ granted' = IF o = "granted" THEN granted \cup { op.db }
                       ELSE granted
         /\ fault' = ( fault \/ o # "granted" )
         /\ Goto("ensure_user_retry")
         /\ UNCHANGED loc
    /\ UNCHANGED << env, dbs, applied, db_path, nOps, op, open, created >>

\* except osdbAccessDeniedError: admin_db.ensure_user(db_url)
ensure_user_escalate ==
    /\ pc = "ensure_user_escalate"
    /\ \E o \in { "granted", "noeffect", "failed" } :
         /\ log' = Append(log, << "ensure_user", o >>)
         /\ granted' = IF o = "granted" THEN granted \cup { op.db }
                       ELSE granted
         /\ fault' = ( fault \/ o # "granted" )
         /\ IF o = "failed"
            THEN /\ loc' = [ loc EXCEPT !.sub_ret = -1 ]
                 /\ Goto("create_after_user")
            ELSE /\ Goto("ensure_user_retry")
                 /\ UNCHANGED loc
    /\ UNCHANGED << env, dbs, applied, db_path, nOps, op, open, created >>

\* the retry: any exception is logged and surfaced as -1
ensure_user_retry ==
    /\ pc = "ensure_user_retry"
    /\ \E o \in AppConnect(op.db) :
         LET r == get_db(o, TRUE)
         IN  /\ log' = Append(log, << "access_check", o >>)
             /\ fault' = ( fault \/ o \in ConnectErrors )
             /\ open' = IF r = "handle" THEN open \cup { "probe" } ELSE open
             /\ IF r = "raise"
                THEN /\ loc' = [ loc EXCEPT !.sub_ret = -1 ]
                     /\ Goto("create_after_user")
                ELSE /\ loc' = [ loc EXCEPT !.eu_db = r ]
                     /\ Goto("ensure_user_finish")
    /\ UNCHANGED << env, world, db_path, nOps, op, created >>

\* db.destroy(); return 0 -- db is None when get_db logged a connection
\* failure and returned nothing
ensure_user_finish ==
    /\ pc = "ensure_user_finish"
    /\ IF loc.eu_db = "none"
       THEN /\ Raise("AttributeError")
            /\ UNCHANGED << open, loc, log >>
       ELSE /\ Goto("create_after_user")
            /\ open' = open \ { "probe" }
            /\ loc' = [ loc EXCEPT !.sub_ret = 0 ]
            /\ log' = Append(log, << "destroy", "probe" >>)
    /\ UNCHANGED << env, world, db_path, nOps, op, fault, created >>

\* a create that applies the schema whatever ensure_user returned
do_create_after_user_IgnoreFailure ==
    /\ pc = "create_after_user"
    /\ Goto("create_tables")
    /\ loc' = [ loc EXCEPT !.db = op.db, !.url = "url",
                           !.admin = "handle",
                           !.tables_arg = << >>, !.std = TRUE ]
    /\ UNCHANGED << env, world, db_path, nOps, op, open, log, fault,
                    created >>

\* if ensure_user(...) < 0: return -1; create_tables(db_name, db_url,
\* admin_db)
do_create_after_user ==
    /\ pc = "create_after_user"
    /\ IF loc.sub_ret < 0
       THEN /\ Return(-1)
            /\ UNCHANGED loc
       ELSE /\ Goto("create_tables")
            /\ loc' = [ loc EXCEPT !.db = op.db, !.url = "url",
                                   !.admin = "handle",
                                   !.tables_arg = << >>, !.std = TRUE ]
    /\ UNCHANGED << env, world, db_path, nOps, op, open, log, fault,
                    created >>

(***************************************************************************)
(* create_tables(db_name, db_url, admin_db, tables=[], create_std=True):   *)
(* the Schema Applier.  loc holds the arguments: db, url, admin,           *)
(* tables_arg and std.                                                     *)
(***************************************************************************)
\* create_tables returns r to its caller
TablesReturn(r) ==
    /\ pc' = AfterTables
    /\ UNCHANGED << ret, raised >>
    /\ loc' = [ loc EXCEPT !.sub_ret = r ]

\* db_url = osdb.set_url_db(db_url, db_name); db = get_db(db_url, db_name)
create_tables_connect ==
    /\ pc = "create_tables"
    /\ \E o \in ( IF loc.url = "url" THEN AppConnect(loc.db)
                  ELSE AdminConnect \cup { "badurl" } ) :
         IF o = "badurl"
         THEN \* the URL helper rejects a db_url that is no URL string
              /\ Raise("Exception")
              /\ fault' = TRUE
              /\ UNCHANGED << open, loc, log >>
         ELSE /\ log' = Append(log, << "connect", o >>)
              /\ fault' = ( fault \/ o \in ConnectErrors )
              /\ IF get_db(o, FALSE) = "handle"
                 THEN /\ Goto("create_tables_locate")
                      /\ open' = open \cup { "app" }
                      /\ UNCHANGED loc
                 ELSE /\ TablesReturn(-1)
                      /\ UNCHANGED open
    /\ UNCHANGED << env, world, db_path, nOps, op, created >>

\* if not db.exists(): return -1; schema_path = get_schema_path(db.dialect)
create_tables_locate ==
    /\ pc = "create_tables_locate"
    /\ IF loc.db \notin dbs
       THEN /\ TablesReturn(-1)
            /\ UNCHANGED db_path
       ELSE LET sp == get_schema_path(<< Dialect >>, db_path)
            IN  /\ db_path' = sp.db_path
                /\ IF ~ sp.ok
                   THEN TablesReturn(-1)
                   ELSE /\ Goto("create_tables_resolve")
                        /\ loc' = [ loc EXCEPT !.schema = sp.path ]
    /\ UNCHANGED << env, world, nOps, op, open, log, fault, created >>

\* a resolver that goes on without the standard tables when
\* standard-create.sql is missing
create_tables_resolve_NoStandardCheck ==
    /\ pc = "create_tables_resolve"
    /\ LET dir == ListDir(loc.schema)
       IN  /\ Goto("create_tables_probe")
           /\ loc' = [ loc EXCEPT
                 !.table_files =
                    IF loc.std /\ IsFile(dir, CreateFile("standard"))
                    THEN << "standard" >> ELSE << >>,
                 !.tables = ResolveTables(loc.tables_arg, dir),
                 !.resolved = TRUE ]
    /\ UNCHANGED << env, world, db_path, nOps, op, open, log, fault,
                    created >>

\* the standard-create.sql check and the choice of the tables to deploy
create_tables_resolve ==
    /\ pc = "create_tables_resolve"
    /\ LET dir == ListDir(loc.schema)
       IN  IF loc.std /\ ~ IsFile(dir, CreateFile("standard"))
           THEN TablesReturn(-1)
           ELSE /\ Goto("create_tables_probe")
                /\ loc' = [ loc EXCEPT
                      !.table_files = IF loc.std THEN << "standard" >>
                                      ELSE << >>,
                      !.tables = ResolveTables(loc.tables_arg, dir),
                      !.resolved = TRUE ]
    /\ UNCHANGED << env, world, db_path, nOps, op, open, log, fault,
                    created >>

\* the probe loop over tables, then admin_db.connect(db_name)
create_tables_probe ==
    /\ pc = "create_tables_probe"
    /\ LET dir   == ListDir(loc.schema)
           files == ProbeTables(loc.tables, Len(loc.tables),
                                loc.table_files, dir)
           plog  == log \o ProbeLog(loc.tables, Len(loc.tables), dir)
       IN  IF loc.admin # "handle"
           THEN \* admin_db is no osdb object: it has no connect()
                /\ Raise("AttributeError")
                /\ loc' = [ loc EXCEPT !.table_files = files ]
                /\ log' = plog
           ELSE /\ Goto(IF files = << >> THEN "create_tables_finish"
                        ELSE "create_tables_exec")
                /\ loc' = [ loc EXCEPT !.table_files = files, !.i = 1 ]
                /\ log' = Append(plog, << "admin_connect", loc.db >>)
    /\ UNCHANGED << env, world, db_path, nOps, op, open, fault, created >>

\* what one iteration does to the server, the log and the fault mark
ExecEffect(module, o) ==
    /\ applied' = IF o = "ok"
                  THEN [ applied EXCEPT ![loc.db] = @ \cup { module } ]
                  ELSE applied
    /\ log' = log \o << << "run", module >> >> \o
              ( IF o = "ok" /\ Dialect = "postgres"
                THEN << << "grant", module >> >>
                ELSE IF o = "exists"
                THEN << << "already", module >> >>
                ELSE IF o = "error"
                THEN << << "cannot_import", module >> >>
                ELSE << >> )
    /\ fault' = ( fault \/ o = "error" )

\* an execution loop that gives up with -1 when a module exists already
create_tables_exec_ExistsIsFatal ==
    /\ pc = "create_tables_exec"
    /\ LET module == loc.table_files[loc.i]
       IN  \E o \in CreateModule(loc.db, module) :
             /\ ExecEffect(module, o)
             /\ IF o = "exists"
                THEN TablesReturn(-1)
                ELSE /\ loc' = [ loc EXCEPT !.i = loc.i + 1 ]
                     /\ Goto(IF loc.i = Len(loc.table_files)
                             THEN "create_tables_finish"
                             ELSE "create_tables_exec")
    /\ UNCHANGED << env, dbs, granted, db_path, nOps, op, open, created >>

\* an execution loop that leaves the loop at the first database error
create_tables_exec_StopAtError ==
    /\ pc = "create_tables_exec"
    /\ LET module == loc.table_files[loc.i]
       IN  \E o \in CreateModule(loc.db, module) :
             /\ ExecEffect(module, o)
             /\ loc' = [ loc EXCEPT !.i = loc.i + 1 ]
             /\ Goto(IF loc.i = Len(loc.table_files) \/ o = "error"
                     THEN "create_tables_finish"
                     ELSE "create_tables_exec")
    /\ UNCHANGED << env, dbs, granted, db_path, nOps, op, open, created >>

\* one iteration of "for module, table_file in table_files.items()"
create_tables_exec ==
    /\ pc = "create_tables_exec"
    /\ LET module == loc.table_files[loc.i]
       IN  \E o \in CreateModule(loc.db, module) : ExecEffect(module, o)
    /\ loc' = [ loc EXCEPT !.i = loc.i + 1 ]
    /\ Goto(IF loc.i = Len(loc.table_files) THEN "create_tables_finish"
            ELSE "create_tables_exec")
    /\ UNCHANGED << env, dbs, granted, db_path, nOps, op, open, created >>

\* db.destroy(); return 0
create_tables_finish ==
    /\ pc = "create_tables_finish"
    /\ TablesReturn(0)
    /\ open' = open \ { "app" }
    /\ log' = Append(log, << "destroy", "app" >>)
    /\ UNCHANGED << env, world, db_path, nOps, op, fault, created >>

\* if create_tables(...) < 0: return -1; admin_db.destroy(); return 0
do_create_finish ==
    /\ pc = "create_finish"
    /\ IF loc.sub_ret < 0
       THEN /\ Return(-1)
            /\ UNCHANGED << open, log, created >>
       ELSE /\ Return(0)
            /\ open' = open \ { "admin" }
            /\ log' = Append(log, << "destroy", "admin" >>)
            /\ created' = created \cup { op.db }
    /\ UNCHANGED << env, world, db_path, nOps, op, loc, fault >>

(***************************************************************************)
(* do_add.                                                                 *)
(***************************************************************************)
\* add <module> [db_name]
StartAdd(nparams, module, d) ==
    Start(Op("add", d, module, "", nparams), "add_connect")

\* the parameter check, the two URLs and the administrative handle, then
\* create_tables(db_name, db_url, admin_db, tables=[module],
\* create_std=False)
do_add_connect ==
    /\ pc = "add_connect"
    /\ IF op.nparams < 1 \/ ~ get_db_url \/ ~ get_admin_db_url
       THEN /\ Return(-1)
            /\ UNCHANGED << open, loc, log, fault >>
       ELSE \E o \in AdminConnect :
              IF get_db(o, FALSE) = "handle"
              THEN /\ Goto("create_tables")
                   /\ open' = open \cup { "admin" }
                   /\ log' = Append(log, << "open", "admin" >>)
                   /\ loc' = [ loc EXCEPT !.db = op.db, !.url = "url",
                                          !.admin = "handle",
                                          !.tables_arg = << op.module >>,
                                          !.std = FALSE ]
                   /\ UNCHANGED fault
              ELSE /\ Return(-1)
                   /\ fault' = TRUE
                   /\ UNCHANGED << open, loc, log >>
    /\ UNCHANGED << env, world, db_path, nOps, op, created >>

\* admin_db.destroy(); return ret
do_add_finish ==
    /\ pc = "add_finish"
    /\ Return(loc.sub_ret)
    /\ open' = open \ { "admin" }
    /\ log' = Append(log, << "destroy", "admin" >>)
    /\ UNCHANGED << env, world, db_path, nOps, op, loc, fault, created >>

(***************************************************************************)
(* do_drop.                                                                *)
(***************************************************************************)
StartDrop(d) == Start(Op("drop", d, "", "", 1), "drop_connect")

do_drop_connect ==
    /\ pc = "drop_connect"
    /\ IF ~ get_admin_db_url
       THEN /\ Return(-1)
            /\ UNCHANGED << open, log, fault >>
       ELSE \E o \in AdminConnect :
              IF get_db(o, FALSE) = "handle"
              THEN /\ Goto("drop_check")
                   /\ open' = open \cup { "admin" }
                   /\ log' = Append(log, << "open", "admin" >>)
                   /\ UNCHANGED fault
              ELSE /\ Return(-1)
                   /\ fault' = TRUE
                   /\ UNCHANGED << open, log >>
    /\ UNCHANGED << env, world, db_path, nOps, op, loc, created >>

\* the answer of cfg.read_param("database_force_drop", ..., isbool=True)
Confirm(force) == << "confirm", IF force THEN "yes" ELSE "no" >>

\* a drop that calls db.drop() whatever the confirmation says
do_drop_drop_IgnoreConfirm ==
    /\ pc = "drop_check"
    /\ open' = open \ { "admin" }
    /\ IF op.db \notin dbs
       THEN /\ Return(-1)
            /\ log' = log \o << << "exists", op.db >>,
                                << "destroy", "admin" >> >>
            /\ UNCHANGED << dbs, applied, fault, created >>
       ELSE \E force \in BOOLEAN, dropped \in BOOLEAN :
              /\ Return(0)
              /\ IF dropped
                 THEN /\ dbs' = dbs \ { op.db }
                      /\ applied' = [ applied EXCEPT ![op.db] = {} ]
                      /\ created' = created \ { op.db }
                 ELSE UNCHANGED << dbs, applied, created >>
              /\ fault' = ( fault \/ ~ dropped )
              /\ log' = log \o << << "exists", op.db >>, Confirm(force),
                                  << "drop", op.db >>,
                                  << "destroy", "admin" >> >>
    /\ UNCHANGED << env, granted, db_path, nOps, op, loc >>

\* if db.exists(): the database_force_drop confirmation and db.drop()
do_drop_drop ==
    /\ pc = "drop_check"
    /\ open' = open \ { "admin" }
    /\ IF op.db \notin dbs
       THEN /\ Return(-1)
            /\ log' = log \o << << "exists", op.db >>,
                                << "destroy", "admin" >> >>
            /\ UNCHANGED << dbs, applied, fault, created >>
       ELSE \E force \in BOOLEAN, dropped \in BOOLEAN :
              /\ Return(0)
              /\ IF force /\ dropped
                 THEN /\ dbs' = dbs \ { op.db }
                      /\ applied' = [ applied EXCEPT ![op.db] = {} ]
                      /\ created' = created \ { op.db }
                 ELSE UNCHANGED << dbs, applied, created >>
              /\ fault' = ( fault \/ ( force /\ ~ dropped ) )
              /\ log' = log \o << << "exists", op.db >>, Confirm(force) >>
                        \o ( IF force THEN << << "drop", op.db >> >>
                             ELSE << << "declined", op.db >> >> ) \o
                        << << "destroy", "admin" >> >>
    /\ UNCHANGED << env, granted, db_path, nOps, op, loc >>

(***************************************************************************)
(* do_migrate: the Migration Driver.                                       *)
(***************************************************************************)
\* migrate <old-database> <new-database>
StartMigrate(nparams, old, new) ==
    Start(Op("migrate", new, "", old, nparams), "migrate_connect")

\* the usage check, admin_url and db = get_db(admin_url, new_db)
do_migrate_connect ==
    /\ pc = "migrate_connect"
    /\ IF op.nparams < 2
       THEN /\ Return(0)
            /\ UNCHANGED << open, log, fault >>
       ELSE IF ~ get_admin_db_url
       THEN /\ Return(-1)
            /\ UNCHANGED << open, log, fault >>
       ELSE \E o \in AdminConnect :
              IF get_db(o, FALSE) = "handle"
              THEN /\ Goto("migrate_validate")
                   /\ open' = open \cup { "admin" }
                   /\ log' = Append(log, << "open", "admin" >>)
                   /\ UNCHANGED fault
              ELSE /\ Return(-1)
                   /\ fault' = TRUE
                   /\ UNCHANGED << open, log >>
    /\ UNCHANGED << env, world, db_path, nOps, op, loc, created >>

\* a migrate without the dialect check
UnsupportedBackend_Never == FALSE

\* if db.dialect != "mysql"
UnsupportedBackend == Dialect # "mysql"

\* the dialect check and the source database check
do_migrate_validate ==
    /\ pc = "migrate_validate"
    /\ IF UnsupportedBackend
       THEN /\ Return(-1)
            /\ UNCHANGED log
       ELSE IF op.old \notin dbs
       THEN /\ Return(-2)
            /\ log' = Append(log, << "exists", op.old >>)
       ELSE /\ Goto("create_db")
            /\ log' = Append(log, << "exists", op.old >>)
    /\ UNCHANGED << env, world, db_path, nOps, op, open, loc, fault,
                    created >>

\* if create_db(new_db, admin_url, db) < 0: return -1;
\* create_tables(new_db, db, admin_url): db is passed as db_url and
\* admin_url as admin_db
do_migrate_after_db ==
    /\ pc = "migrate_after_db"
    /\ IF CreateDbFailed(loc.sub_ret)
       THEN /\ Return(-1)
            /\ UNCHANGED loc
       ELSE /\ Goto("create_tables")
            /\ loc' = [ loc EXCEPT !.db = op.db, !.url = "handle",
                                   !.admin = "str",
                                   !.tables_arg = << >>, !.std = TRUE ]
    /\ UNCHANGED << env, world, db_path, nOps, op, open, log, fault,
                    created >>

\* get_migrate_scripts_path(backend), from self.db_path: are both scripts
\* there (the function returns None when self.db_path is None)
get_migrate_scripts_path(backend0, path) ==
    LET backend == Join(StripVariant(backend0))
        dir     == ListDir(Append(path, backend))
    IN  /\ path # NoPath
        /\ IsFile(dir, "table-migrate.sql")
        /\ IsFile(dir, "db-migrate.sql")

\* if create_tables(...) < 0: return -1; the schema path, the migration
\* scripts, db.migrate(...), db.destroy(), return True
do_migrate_finish ==
    /\ pc = "migrate_after_tables"
    /\ IF loc.sub_ret < 0
       THEN /\ Return(-1)
            /\ UNCHANGED << db_path, open, log >>
       ELSE LET sp == get_schema_path(engine, db_path)
            IN  /\ db_path' = sp.db_path
                /\ IF ~ sp.ok
                   THEN /\ Return(-1)
                        /\ UNCHANGED << open, log >>
                   ELSE IF ~ get_migrate_scripts_path(engine, sp.db_path)
                   THEN /\ Return(-1)
                        /\ UNCHANGED << open, log >>
                   ELSE /\ Return(1)
                        /\ open' = open \ { "admin" }
                        /\ log' = log \o
                             << << "migrate", op.old, op.db,
                                   MIGRATE_TABLES_24_TO_30 >>,
                                << "destroy", "admin" >> >>
    /\ UNCHANGED << env, world, nOps, op, loc, fault, created >>

(***************************************************************************)
(* Inputs: directory listings and configuration values.                    *)
(***************************************************************************)
File(n) == [ n |-> n, k |-> "file" ]

Dir(n) == [ n |-> n, k |-> "dir" ]

\* <module>-create.sql
Asset(m) == << m, CREATE_SUFFIX >>

\* a complete schema directory
FsFull ==
    << File(Asset("standard")), File(Asset("acc")),
       File(Asset("load_balancer")), File(Asset("b2b")),
       File(<< "table-migrate.sql" >>), File(<< "db-migrate.sql" >>) >>

\* one migration script is missing
FsNoDbMigrate ==
    << File(Asset("acc")), File(Asset("standard")),
       File(<< "table-migrate.sql" >>) >>

\* no standard-create.sql
FsNoStandard == << File(Asset("acc")), File(<< "db-migrate.sql" >>) >>

\* a directory named like an asset, a file that is no asset and a file
\* whose name holds the suffix twice
FsOdd ==
    << File(Asset("standard")), Dir(Asset("dialog")),
       File(<< "README" >>), File(<< "b2b", CREATE_SUFFIX, CREATE_SUFFIX >>),
       File(Asset("acc")) >>

NoModules == [ exists |-> FALSE, value |-> << >> ]

Modules(cs) == [ exists |-> TRUE, value |-> cs ]

\* database_modules: " AlL\n"
CfgAll == Modules(<< " ", "A", "l", "L", "\n" >>)

\* database_modules: "acc b2b"
CfgList == Modules(<< "a", "c", "c", " ", "b", "2", "b" >>)

\* database_modules: "ACC  nomod" (two spaces)
CfgGap ==
    Modules(<< "A", "C", "C", " ", " ", "n", "o", "m", "o", "d" >>)

\* database_schema_path as the operator may give it
SchemaPaths ==
    { NoPath, CUSTOM_ROOT, Append(CUSTOM_ROOT, ""),
      Append(CUSTOM_ROOT, "mysql") }

(***************************************************************************)
(* Initial states.                                                         *)
(***************************************************************************)
\* the process starts with no cached schema root and no command run
InitProcess ==
    /\ created = {}
    /\ db_path = NoPath
    /\ nOps = 0
    /\ op = Op("none", "", "", "", 0)
    /\ pc = "idle"
    /\ ret = 0
    /\ raised = "none"
    /\ open = {}
    /\ loc = LocInit
    /\ log = << >>
    /\ fault = FALSE

\* the database server as the process finds it
InitWorld ==
    /\ dbs \in SUBSET DbNames
    /\ granted \in SUBSET DbNames
    /\ applied = [ d \in DbNames |-> {} ]

\* the system path holds the schema files
InitSystemSchema ==
    /\ sysStd = TRUE
    /\ schemaCfg = NoPath
    /\ customKind = "missing"

Init ==
    /\ engine \in Drivers
    /\ adminCfg = TRUE
    /\ osUser = "root"
    /\ InitSystemSchema
    /\ fs \in { FsFull, FsNoDbMigrate }
    /\ cfgModules = NoModules
    /\ InitWorld
    /\ InitProcess

\* the schema root is the system path or an operator-supplied one, and
\* the schema directory and the module selection vary
InitAssets ==
    /\ engine = << "mysql" >>
    /\ adminCfg = TRUE
    /\ osUser = "root"
    /\ fs \in { FsFull, FsOdd, FsNoStandard }
    /\ sysStd \in { s \in BOOLEAN : s => IsFile(fs, "standard-create.sql") }
    /\ schemaCfg \in ( IF sysStd THEN { NoPath } ELSE SchemaPaths )
    /\ customKind \in ( IF sysStd THEN { "missing" }
                         ELSE { "ok", "nobackend" } )
    /\ cfgModules \in { NoModules, CfgAll, CfgList, CfgGap }
    /\ dbs = { "opensips" }
    /\ granted \in { { "opensips" }, DbNames }
    /\ applied = [ d \in DbNames |-> {} ]
    /\ InitProcess

\* the modules given to add
AddModules == { "acc", "standard", "nomod" }

NextCreate ==
    \/ \E d \in DbNames : StartCreate(d)
    \/ do_create_connect
    \/ create_db
    \/ do_create_after_db
    \/ ensure_user_check
    \/ ensure_user_escalate
    \/ ensure_user_retry
    \/ ensure_user_finish
    \/ do_create_after_user
    \/ create_tables_connect
    \/ create_tables_locate
    \/ create_tables_resolve
    \/ create_tables_probe
    \/ create_tables_exec
    \/ create_tables_finish
    \/ do_create_finish

NextAdd ==
    \/ \E n \in 0..2, m \in AddModules, d \in DbNames : StartAdd(n, m, d)
    \/ do_add_connect
    \/ do_add_finish

NextDrop ==
    \/ \E d \in DbNames : StartDrop(d)
    \/ do_drop_connect
    \/ do_drop_drop

NextMigrate ==
    \/ \E n \in 1..2, old \in DbNames, new \in DbNames :
         StartMigrate(n, old, new)
    \/ do_migrate_connect
    \/ do_migrate_validate
    \/ do_migrate_after_db
    \/ do_migrate_finish

Next == NextCreate \/ NextAdd \/ NextDrop \/ NextMigrate

Spec == Init /\ [][Next]_vars

NextAssets == NextCreate \/ NextAdd

SpecAssets == InitAssets /\ [][NextAssets]_vars

(***************************************************************************)
(* The Schema Locator on its own: get_schema_path called with one backend  *)
(* identifier after another in one process.  The schema files on disk are  *)
(* those of the backend Dialect.                                           *)
(***************************************************************************)
\* what CUSTOM_ROOT may be on disk
CustomKinds == { "ok", "nobackend", "file", "missing" }

InitLocator ==
    /\ engine \in Drivers
    /\ adminCfg = TRUE
    /\ osUser = "root"
    /\ fs = FsFull
    /\ sysStd \in BOOLEAN
    /\ schemaCfg \in SchemaPaths
    /\ customKind \in CustomKinds
    /\ cfgModules = NoModules
    /\ dbs = {}
    /\ granted = {}
    /\ applied = [ d \in DbNames |-> {} ]
    /\ InitProcess

\* schema_path = self.get_schema_path(backend): loc.schema is the result,
\* NoPath for None
get_schema_path_call(backend) ==
    /\ Idle
    /\ nOps < MaxOps
    /\ nOps' = nOps + 1
    /\ op' = Op("get_schema_path", "", "", "", 1)
    /\ LET sp == get_schema_path(backend, db_path)
       IN  /\ db_path' = sp.db_path
           /\ loc' = [ LocInit EXCEPT !.backend = backend,
                                      !.schema = sp.path ]
    /\ Return(0)
    /\ open' = {}
    /\ log' = << >>
    /\ fault' = FALSE
    /\ UNCHANGED << env, world, created >>

NextLocator == \E backend \in Drivers : get_schema_path_call(backend)

SpecLocator == InitLocator /\ [][NextLocator]_vars

(***************************************************************************)
(* Properties.                                                             *)
(***************************************************************************)
\* the command has ended, by a return or by an exception
Done == pc = "done"

\* the command returned a failure status
ReturnedFailure == Done /\ raised = "none" /\ ret < 0

\* the log holds an event of this kind
Logged(kind) == \E i \in 1..Len(log) : log[i][1] = kind

\* the log holds this event
LoggedEvent(kind, arg) ==
    \E i \in 1..Len(log) : log[i] = << kind, arg >>

\* both migration scripts are in the schema directory
ScriptsPresent ==
    IsFile(fs, "table-migrate.sql") /\ IsFile(fs, "db-migrate.sql")

\* C1: when create, add or drop has ended, every database handle the
\* command opened (the administrative handle, the application handle of
\* create_tables, the access probe of ensure_user) has been destroyed.
C1_HandlesReleased ==
    ( Done /\ op.name \in { "create", "add", "drop" } ) => open = {}

\* C2: when migrate has ended, the administrative connection it opened has
\* been destroyed, whatever the exit path.
C2_MigrateClosesAdmin ==
    ( Done /\ op.name = "migrate" ) => "admin" \notin open

\* C3 as claimed: create or add, run again on a database an earlier create
\* of this run returned 0 for, with no driver failure, returns a
\* non-failure status.
C3_RerunDoesNotError ==
    ( Done /\ op.again /\ ~ fault
           /\ op.name \in { "create", "add" } /\ op.nparams >= 1 )
    => ( raised = "none" /\ ret >= 0 )

\* C3 as amended: after a successful create of a database, add <module> on
\* it returns 0 when no driver primitive fails, and a second create of it
\* returns -1 from the database-exists check, before any access check and
\* with nothing created.
C3_RerunAddOnly ==
    ( Done /\ op.again /\ ~ fault )
    => /\ ( op.name = "add" /\ op.nparams >= 1 )
            => ( raised = "none" /\ ret = 0 )
       /\ op.name = "create"
            => /\ raised = "none" /\ ret = -1
               /\ ~ Logged("access_check")
               /\ ~ Logged("create")
               /\ LoggedEvent("warn_exists", op.db)

\* both re-runs have happened: an add and a create on a created database
C3_Witness ==
    /\ Done /\ op.again /\ ~ fault
    /\ op.name = "create"
    /\ ret = -1
    /\ op.db \in created

C3_WitnessAdd ==
    /\ Done /\ op.again /\ ~ fault
    /\ op.name = "add" /\ op.module = "acc"
    /\ ret = 0
    /\ LoggedEvent("already", "acc")

\* C4: in ensure_user, when the first application-scope access check
\* succeeds, the administrative ensure_user primitive is not invoked, no
\* second access check is made, and ensure_user returns 0.
C4_BootstrapIdempotent ==
    ( op.name = "create" /\ loc.first = "ok" )
    => /\ ~ Logged("ensure_user")
       /\ raised = "none"
       /\ pc \notin { "ensure_user_escalate", "ensure_user_retry" }
       /\ pc = "create_after_user" => loc.sub_ret = 0
       /\ Cardinality({ i \in 1..Len(log) : log[i][1] = "access_check" })
            = 1

\* ensure_user has returned after a first access check that succeeded
C4_Witness ==
    /\ pc = "create_after_user"
    /\ loc.first = "ok"
    /\ loc.sub_ret = 0
    /\ LoggedEvent("destroy", "probe")

\* C5: a migrate call given both database names on a backend other than
\* mysql never invokes the driver's create primitive, and when it has
\* ended it has returned a failure status.
C5_UnsupportedBackendFails ==
    ( op.name = "migrate" /\ op.nparams >= 2 /\ Dialect # "mysql" )
    => /\ ~ Logged("create")
       /\ pc \notin { "create_db", "migrate_after_db", "create_tables" }
       /\ Done => ReturnedFailure

\* the dialect check of a connected migrate call has refused postgres
C5_Witness ==
    /\ Done /\ op.name = "migrate" /\ op.nparams = 2
    /\ Dialect = "postgres"
    /\ "admin" \in open
    /\ ret = -1
    /\ op.db \notin dbs

\* C6: a migrate call given both database names, with table-migrate.sql
\* or db-migrate.sql absent, returns a failure status and never invokes
\* the bulk-copy primitive db.migrate.
C6_MissingScriptsFail ==
    ( op.name = "migrate" /\ op.nparams >= 2 /\ ~ ScriptsPresent )
    => /\ ~ Logged("migrate")
       /\ Done => ReturnedFailure

\* create_tables has probed the requested modules for their assets
Probed == loc.i >= 1

\* create_tables has returned after its execution loop
Applied == Probed /\ pc \in { "create_finish", "add_finish", "done" }

\* <table>-create.sql is a regular file of the schema directory
HasAsset(table) == IsFile(ListDir(loc.schema), CreateFile(table))

\* C7: when the requested module list holds names with no creation
\* asset, create_tables leaves exactly those names out of the Table Files
\* Map, each with a warning, keeps every requested module that has an
\* asset, runs the SQL of every kept module and returns 0.
C7_MissingAssetsSkipped ==
    ( Probed /\ \E t \in Range(loc.tables) : ~ HasAsset(t) )
    => /\ \A t \in Range(loc.tables) :
            /\ ~ HasAsset(t) => /\ t \notin Range(loc.table_files)
                                /\ LoggedEvent("warn", t)
            /\ HasAsset(t) => t \in Range(loc.table_files)
       /\ Applied => /\ loc.sub_ret = 0
                     /\ \A t \in Range(loc.table_files) :
                          LoggedEvent("run", t)

\* the configured module selection normalises to "all"
SelectsAll ==
    /\ loc.tables_arg = << >>
    /\ cfgModules.exists
    /\ Join(Lower(Strip(cfgModules.value))) = "all"

\* the names m such that m-create.sql is a regular file of the schema
\* directory
AssetModules ==
    LET dir == ListDir(loc.schema)
    IN  { Join(Front(dir[i].n)) :
            i \in { j \in 1..Len(dir) :
                      dir[j].k = "file" /\ EndsWithCreate(dir[j].n) } }

\* C8: with no explicit list and a module selection that normalises to
\* "all", the resolved module set is exactly the set of names m such that
\* m-create.sql is a regular file of the schema directory.
C8_AllIsExactlyTheAssets ==
    ( loc.resolved /\ SelectsAll ) => Range(loc.tables) = AssetModules

\* the names a configured module selection gives
ConfiguredNames ==
    IF Join(Lower(Strip(cfgModules.value))) = "all"
    THEN { ReplaceCreate(e.n) :
             e \in { f \in Range(ListDir(loc.schema)) :
                       f.k = "file" /\ EndsWithCreate(f.n) } }
    ELSE Range(SplitSpace(Lower(Strip(cfgModules.value)), << >>))

\* C9: the resolved modules come from the first source present: the
\* explicit list as it is; else the configured selection alone; else the
\* standard module set.
C9_FirstMatchWins ==
    loc.resolved
    => /\ loc.tables_arg # << >> => loc.tables = loc.tables_arg
       /\ ( loc.tables_arg = << >> /\ cfgModules.exists )
            => Range(loc.tables) = ConfiguredNames
       /\ ( loc.tables_arg = << >> /\ ~ cfgModules.exists )
            => loc.tables = STANDARD_DB_MODULES

\* add has resolved its one module while a module selection naming other
\* modules is configured
C9_Witness ==
    /\ loc.resolved
    /\ op.name = "add"
    /\ cfgModules = CfgList
    /\ loc.tables = << "nomod" >>

\* C10: with neither an explicit list nor a configured selection, the
\* resolved module set holds no member of EXTRA_DB_MODULES.
C10_NoExtraByDefault ==
    ( loc.resolved /\ loc.tables_arg = << >> /\ ~ cfgModules.exists )
    => Range(loc.tables) \cap Range(EXTRA_DB_MODULES) = {}

\* the status of do_create's hard-failure returns
HARD_FAILURE == -1

\* create found the database to exist already (the soft failure)
CreateFoundExisting ==
    op.name = "create" /\ LoggedEvent("warn_exists", op.db)

\* C11: create invoked on a database that already exists returns a status
\* different from the status create returns for a hard failure (a failed
\* connection, a failed creation, a failed bootstrap).
C11_SoftFailureHasOwnStatus ==
    ( Done /\ raised = "none" /\ CreateFoundExisting )
    => ret # HARD_FAILURE

\* C12: each of create, drop, add and migrate ends by returning an integer
\* status, whatever the driver's outcomes: no exception leaves the command.
C12_NoExceptionLeaves ==
    Done => raised = "none"

\* C13: add <module> <db> for a module whose creation SQL was already
\* applied to <db>: the module-already-exists condition is caught and
\* reported for that module, the loop goes on to its end, and add returns 0,
\* not a failure status.
C13_AlreadyExistsIsNotFatal ==
    ( op.name = "add" /\ LoggedEvent("already", op.module) )
    => /\ raised = "none"
       /\ op.module \in applied[op.db]
       /\ ~ LoggedEvent("cannot_import", op.module)
       /\ pc \in { "create_tables_finish", "add_finish", "done" }
       /\ pc = "add_finish" => loc.sub_ret = 0
       /\ Done => ret = 0

\* C14: in drop, the driver's drop primitive is invoked only if the target
\* database exists and the database_force_drop confirmation was answered
\* with true; when the confirmation is declined or the database does not
\* exist, no drop is performed and the database set is left as it was.
C14_DropOnlyWhenConfirmed ==
    /\ [] ( ( op.name = "drop" /\ Logged("drop") )
              => /\ LoggedEvent("confirm", "yes")
                 /\ ~ LoggedEvent("confirm", "no") )
    /\ [][ ( op.name = "drop" /\ op' = op )
             => /\ Logged("drop")' => op.db \in dbs
                /\ ( op.db \notin dbs \/ LoggedEvent("confirm", "no")' )
                     => ( dbs' = dbs /\ ~ Logged("drop")' )
                /\ dbs' \in { dbs, dbs \ { op.db } } ]_vars

\* the confirmation was declined and the database is still there
C14_Witness ==
    /\ Done /\ op.name = "drop"
    /\ LoggedEvent("confirm", "no")
    /\ LoggedEvent("declined", op.db)
    /\ op.db \in dbs
    /\ ret = 0

\* the confirmation was given and the database is gone
C14_WitnessDropped ==
    /\ Done /\ op.name = "drop"
    /\ LoggedEvent("confirm", "yes")
    /\ LoggedEvent("drop", op.db)
    /\ op.db \notin dbs

\* add has returned 0 for a module that was applied before
C13_Witness ==
    /\ Done /\ op.name = "add" /\ op.module = "acc"
    /\ "acc" \in applied[op.db]
    /\ LoggedEvent("already", "acc")
    /\ LoggedEvent("destroy", "app")
    /\ ret = 0

\* the positions of the log that hold an event of this kind
Events(kind) == { i \in 1..Len(log) : log[i][1] = kind }

\* ensure_user has returned r to do_create
EnsureUserReturned(r) == pc = "create_after_user" /\ loc.sub_ret = r

\* C15: in ensure_user, the administrative ensure_user primitive is invoked
\* only right after the first access check was denied, and at most once; if
\* it fails, ensure_user returns -1 with no retry; otherwise the access
\* check is retried exactly once, and a retry that raises (a second
\* access-denied) makes ensure_user return -1.  There are never more than
\* two access checks.
C15_BoundedCheckThenFix ==
    op.name = "create"
    => /\ Cardinality(Events("access_check")) <= 2
       /\ Cardinality(Events("ensure_user")) <= 1
       /\ \A i \in Events("ensure_user") :
            /\ i > 1
            /\ log[i - 1] = << "access_check", "denied" >>
            /\ Events("access_check") \cap 1..(i - 1) = { i - 1 }
       /\ LoggedEvent("ensure_user", "failed")
            => /\ Cardinality(Events("access_check")) = 1
               /\ raised = "none"
               /\ pc \in { "create_after_user", "done" }
               /\ pc = "create_after_user" => EnsureUserReturned(-1)
               /\ Done => ret = -1
       /\ ( Logged("ensure_user") /\ ~ LoggedEvent("ensure_user", "failed") )
            => Cardinality(Events("access_check"))
                 = IF pc = "ensure_user_retry" THEN 1 ELSE 2
       /\ ( Cardinality(Events("access_check")) = 2
            /\ log[Len(log)] = << "access_check", "denied" >> )
            => /\ raised = "none"
               /\ pc \in { "create_after_user", "done" }
               /\ pc = "create_after_user" => EnsureUserReturned(-1)
               /\ Done => ret = -1

\* the bootstrap changed nothing, the retry was denied and ensure_user
\* returned -1
C15_Witness ==
    /\ op.name = "create"
    /\ EnsureUserReturned(-1)
    /\ LoggedEvent("ensure_user", "noeffect")
    /\ Cardinality(Events("access_check")) = 2
    /\ log[Len(log)] = << "access_check", "denied" >>

\* the bootstrap granted access, the retry succeeded and ensure_user
\* returned 0
C15_WitnessGranted ==
    /\ op.name = "create"
    /\ EnsureUserReturned(0)
    /\ LoggedEvent("ensure_user", "granted")
    /\ Cardinality(Events("access_check")) = 2

\* C16: when the first application-scope access check of ensure_user fails
\* with a connection failure other than access-denied, ensure_user returns
\* the failure status, does not report that access works and does not
\* invoke the administrative ensure_user primitive.
C16_ConnectFailureIsFailure ==
    ( op.name = "create" /\ loc.first \in ConnectErrors )
    => /\ ~ Logged("ensure_user")
       /\ ~ Logged("access_works")
       /\ raised = "none"
       /\ pc = "create_after_user" => loc.sub_ret < 0
       /\ Done => ReturnedFailure

\* the modules whose creation SQL the log shows as run, in order
RunModules ==
    LET isRun(e) == e[1] = "run"
        runs     == SelectSeq(log, isRun)
    IN  [ k \in 1..Len(runs) |-> runs[k][2] ]

\* create_tables is in its execution loop or past it
InExecLoop == Probed /\ pc = "create_tables_exec"

PastExecLoop == Probed /\ pc = "create_tables_finish"

\* C17: once create_tables reaches its execution loop, the creation SQL of
\* every entry of the Table Files Map is attempted exactly once, in the
\* map's order, whatever the outcome of the other entries, and
\* create_tables then returns 0.
C17_EveryEntryAttemptedOnce ==
    /\ InExecLoop => RunModules = SubSeq(loc.table_files, 1, loc.i - 1)
    /\ ( PastExecLoop \/ Applied )
         => /\ RunModules = loc.table_files
            /\ raised = "none"
    /\ Applied => loc.sub_ret = 0

\* create_tables has returned 0 after a database error on its first entry
C17_Witness ==
    /\ Applied
    /\ loc.sub_ret = 0
    /\ Len(loc.table_files) >= 3
    /\ LoggedEvent("cannot_import", loc.table_files[1])
    /\ LoggedEvent("run", loc.table_files[3])

\* the asset of a requested module has been looked for before position i
\* of the log: standard-create.sql when the standard tables are included,
\* a probe of the loop otherwise
ProbedBefore(t, i) ==
    IF t = "standard" THEN loc.std
    ELSE \E j \in 1..(i - 1) : log[j] = << "probe", t >>

\* create_tables looks for standard-create.sql in a located schema
\* directory that does not hold it
StandardMissing ==
    /\ op.name = "create"
    /\ loc.std
    /\ loc.schema # NoPath
    /\ ~ HasAsset("standard")

\* C18: in create_tables, no module's creation SQL is executed before
\* every requested module has been probed for its asset, and when the
\* standard tables are included and standard-create.sql is absent the call
\* returns failure with no creation SQL executed at all.
C18_ResolutionPrecedesExecution ==
    /\ \A i \in Events("run") :
         /\ \A j \in Events("probe") : j < i
         /\ \A t \in Range(loc.tables) \ { "standard" } :
              ProbedBefore(t, i)
         /\ loc.table_files
              = ProbeTables(loc.tables, Len(loc.tables),
                            IF loc.std THEN << "standard" >> ELSE << >>,
                            ListDir(loc.schema))
    /\ StandardMissing
         => /\ ~ Logged("run")
            /\ ~ Logged("probe")
            /\ raised = "none"
            /\ pc \in { "create_tables_resolve", "create_finish", "done" }
            /\ pc = "create_finish" => loc.sub_ret = -1
            /\ Done => ret = -1

\* the first creation SQL has run after the probes of all the requested
\* modules, one of which has no asset
C18_Witness ==
    /\ InExecLoop
    /\ loc.i = 2
    /\ Len(loc.tables) >= 2
    /\ Logged("warn")
    /\ Cardinality(Events("run")) = 1
    /\ Cardinality(Events("probe")) = Len(loc.tables)

\* create_tables has returned -1 for the missing standard-create.sql
C18_WitnessNoStandard ==
    /\ StandardMissing
    /\ pc = "create_finish"
    /\ loc.sub_ret = -1
    /\ fs = FsNoStandard

\* a migrate call given both database names
Migrating == op.name = "migrate" /\ op.nparams >= 2

\* the steps of a migration, as the log shows them
DestinationCreated == LoggedEvent("create", op.db) /\ op.db \in dbs

ProvisionStarted == Logged("connect") \/ Logged("probe") \/ Logged("run")

Copied == Logged("migrate")

\* the order of the steps: each at most once, each only after the earlier
\* ones succeeded
MigrateStepsInOrder ==
    /\ Cardinality(Events("create")) <= 1
    /\ Cardinality(Events("connect")) <= 1
    /\ Cardinality(Events("migrate")) <= 1
    /\ ( Logged("create") \/ Logged("warn_exists") )
         => ( Dialect = "mysql" /\ op.old \in dbs )
    /\ ProvisionStarted
         => ( DestinationCreated /\ ~ Logged("warn_exists") )
    /\ Copied
         => /\ DestinationCreated
            /\ LoggedEvent("destroy", "app")
            /\ ScriptsPresent
    /\ op.old \notin dbs
         => ( ~ Logged("create") /\ ~ ProvisionStarted /\ ~ Copied )
    /\ Logged("warn_exists") => ( ~ ProvisionStarted /\ ~ Copied )

\* C19: migration is a linear state machine over the steps validate
\* dialect, validate source, create destination, provision destination
\* schema, resolve migration scripts, copy: each step runs at most once and
\* only after the earlier steps succeeded, and a failing step ends the
\* migration with a failure status, so that no later step runs.
C19_MigrateIsLinear ==
    Migrating
    => /\ MigrateStepsInOrder
       /\ Done => \/ ReturnedFailure
                   \/ ( raised = "none" /\ ret = 1 /\ Copied )

\* the preconditions of a migration hold and no driver call has failed
MigratePreconditions ==
    /\ op.name = "migrate" /\ op.nparams = 2
    /\ Dialect = "mysql"
    /\ op.old \in dbs
    /\ DestinationCreated
    /\ sysStd /\ IsFile(fs, CreateFile("standard"))
    /\ ScriptsPresent
    /\ ~ fault
    /\ \A i \in Events("connect") : log[i][2] = "ok"

\* C20: a migrate call whose preconditions all hold provisions the
\* destination with the full Schema Applier, then invokes the bulk-copy
\* primitive once with the source name, the destination name and the fixed
\* Migration Manifest, and returns success.
C20_MigrateSucceeds ==
    ( Done /\ MigratePreconditions )
    => /\ raised = "none"
       /\ ret = 1
       /\ LoggedEvent("run", "standard")
       /\ \A t \in Range(STANDARD_DB_MODULES) :
            IsFile(fs, CreateFile(t)) => LoggedEvent("run", t)
       /\ Cardinality(Events("migrate")) = 1
       /\ \E i \in Events("migrate") :
            log[i] = << "migrate", op.old, op.db, MIGRATE_TABLES_24_TO_30 >>

\* the system path holds <backend>/standard-create.sql
ValidSystem(backend) == sysStd /\ backend = Dialect

\* the operator-supplied root, normalised for the backend, exists, is a
\* directory and holds a <backend> subdirectory
ValidCustom(backend) ==
    /\ schemaCfg # NoPath
    /\ LET root == NormalizePath(schemaCfg, backend)
       IN  PathExists(root) /\ PathIsDir(root)
             /\ PathIsDir(Append(root, backend))

\* a call of get_schema_path has returned
Located == Done /\ op.name = "get_schema_path"

\* C21: across the Schema Locator calls of one process, every non-failing
\* result of get_schema_path(backend) is a path validated for that backend
\* (the system path holding <backend>/standard-create.sql, or the
\* operator-supplied root holding a <backend> subdirectory), and a backend
\* for which nothing validates yields the not-found result, also when a
\* root was cached by an earlier call.
C21_ResultIsValidated ==
    Located
    => LET backend == Join(StripVariant(loc.backend))
       IN  /\ loc.schema # NoPath
                => \/ /\ ValidSystem(backend)
                      /\ loc.schema = Append(SYSTEM_PATH, backend)
                   \/ /\ ValidCustom(backend)
                      /\ loc.schema
                           = Append(NormalizePath(schemaCfg, backend),
                                    backend)
           /\ ( ~ ValidSystem(backend) /\ ~ ValidCustom(backend) )
                => loc.schema = NoPath

\* ensure_user returned 0 before position i of the log: its last statements
\* are db.destroy() and return 0
BootstrapSucceededBefore(i) ==
    \E j \in 1..(i - 1) : log[j] = << "destroy", "probe" >>

\* the positions of the log where create_tables acts
ApplierEvents == Events("connect") \cup Events("probe") \cup Events("run")

\* the command is inside create_tables
InApplier ==
    pc \in { "create_tables", "create_tables_locate",
             "create_tables_resolve", "create_tables_probe",
             "create_tables_exec", "create_tables_finish" }

\* C22 as claimed: in create, add and migrate, no module creation SQL is
\* executed before the Privilege Bootstrapper has returned success within
\* the same operation.
C22_BootstrapPrecedesApplier ==
    op.name \in { "create", "add", "migrate" }
    => \A i \in Events("run") : BootstrapSucceededBefore(i)

\* C22 as amended: in create, the Schema Applier is entered, and module
\* creation SQL executed, only after ensure_user returned 0 in the same
\* operation.  add and migrate call no Privilege Bootstrapper: add executes
\* the module's SQL once the application-scope connection of create_tables
\* has opened, and migrate executes no module creation SQL.
C22_BootstrapPrecedesApplierInCreate ==
    /\ op.name = "create"
         => /\ \A i \in ApplierEvents : BootstrapSucceededBefore(i)
            /\ InApplier => LoggedEvent("destroy", "probe")
    /\ op.name \in { "add", "migrate" }
         => /\ ~ Logged("access_check")
            /\ ~ Logged("ensure_user")
    /\ op.name = "add"
         => \A i \in Events("run") :
              \E j \in 1..(i - 1) : log[j] = << "connect", "ok" >>
    /\ op.name = "migrate" => ~ Logged("run")

\* create has run creation SQL after a bootstrap that granted access
C22_Witness ==
    /\ op.name = "create"
    /\ Logged("run")
    /\ LoggedEvent("ensure_user", "granted")
    /\ LoggedEvent("destroy", "probe")

\* add has run creation SQL with no access check of its own
C22_WitnessAdd ==
    /\ op.name = "add"
    /\ Logged("run")
    /\ ~ Logged("access_check")

====
